---- MODULE Spec2Model ----
(***************************************************************************)
(* `spin deploy` (src/commands/deploy.rs): DeployCommand::run publishes a  *)
(* bindle and reconciles it into Hippo's app / channel / revision model.   *)
(*                                                                         *)
(* One invocation runs at a time.  pc names the call the invocation is     *)
(* awaiting; every action is the return of that call together with the     *)
(* code that runs up to the next await (which issues the next call).       *)
(* The bindle server and Hippo are the environment: every call may fail,   *)
(* and a list call may return its items in any order, so `find` may yield  *)
(* any item that satisfies its predicate.                                  *)
(***************************************************************************)
EXTENDS Integers, Sequences, FiniteSets, TLC

\* ------------------------------------------------------------------ bounds
MaxRuns == 3
\* invocations in the specification in which the slow-response timers may fire
MaxTimedRuns == 2

Names == {"a", "b"}
Versions == {"1.0.0", "2.0.0"}

\* ------------------------------------------------------------- constants
SPIN_DEPLOY_CHANNEL_NAME == "spin-deploy"

None == "None"
\* Option<Uuid>::None; the ids Hippo hands out start at 1
NoId == 0
UseRangeRule == "UseRangeRule"
UseSpecifiedRevision == "UseSpecifiedRevision"

CallNames == {"healthz", "push", "login", "list_apps", "add_revision",
              "list_channels", "remove_channel", "list_revisions",
              "add_app", "add_channel", "get_channel_by_id"}

VARIABLES
    apps,        \* Hippo: set of [id, name]
    channels,    \* Hippo: set of [id, appId, name, strategy, rangeRule, activeRevisionId]
    revisions,   \* Hippo: set of [id, appName, version]
    store,       \* bindle server: set of <<name, version>>
    runs,        \* invocations started
    pc,          \* the call the current invocation awaits, or idle / done / failed
    inv,         \* inputs of the invocation: [name, version, redeploy]
    loc,         \* locals of run()
    calls,       \* calls issued by the current invocation, per call name
    pushResult,  \* what create_and_push_bindle returned
    pushTimer,   \* _sloth_warning of create_and_push_bindle
    hippoTimer,  \* _sloth_warning of run
    hist,        \* across invocations: the ids of the apps a deploy completed for
    fn           \* a stage of run() taken alone: its inputs and, once run, its result

vars == <<apps, channels, revisions, store, runs, pc, inv, loc, calls,
          pushResult, pushTimer, hippoTimer, hist, fn>>

hippo == <<apps, channels, revisions>>

\* --------------------------------------------------------- error messages
\* An error message is a sequence of words; `contains` is the substring test.
Contains(s, sub) ==
    \E i \in 1..(Len(s) - Len(sub) + 1) : SubSeq(s, i, i + Len(sub) - 1) = sub

AlreadyExistsPhrase == <<"already", "exists", "on", "the", "server">>

InvoiceExistsErr == <<"Invoice">> \o AlreadyExistsPhrase
ConnectionErr == <<"connection", "refused">>
OtherExistsErr == <<"parcel", "already", "exists">>

RemediationHint == <<"Try", "using", "the", "--deploy-existing-bindle", "flag">>

\* What push_all can return for a bindle, given the store.
PushOutcomes(id) ==
    IF id \in store
    THEN {[ok |-> FALSE, err |-> InvoiceExistsErr],
          [ok |-> FALSE, err |-> ConnectionErr]}
    ELSE {[ok |-> TRUE, err |-> <<>>],
          [ok |-> FALSE, err |-> ConnectionErr],
          [ok |-> FALSE, err |-> OtherExistsErr]}

\* A publisher that treats every conflict as success, flag or no flag.
PublishResult_IgnoresFlag(publish_result, redeploy, bindle_id) ==
    IF ~publish_result.ok /\ ~Contains(publish_result.err, AlreadyExistsPhrase)
    THEN [ok |-> FALSE, id |-> None,
          err |-> <<"Failed", "to", "push", "bindle">> \o publish_result.err]
    ELSE [ok |-> TRUE, id |-> bindle_id, err |-> <<>>]

\* create_and_push_bindle, from publish_result on (lines 340-364).
PublishResult(publish_result, redeploy, bindle_id) ==
    IF ~publish_result.ok
    THEN IF Contains(publish_result.err, AlreadyExistsPhrase)
         THEN IF redeploy
              THEN [ok |-> TRUE, id |-> bindle_id, err |-> <<>>]
              ELSE [ok |-> FALSE, id |-> None,
                    err |-> <<"Failed", "to", "push", "bindle", "to", "server.">>
                            \o publish_result.err \o RemediationHint]
         ELSE [ok |-> FALSE, id |-> None,
               err |-> <<"Failed", "to", "push", "bindle">> \o publish_result.err]
    ELSE [ok |-> TRUE, id |-> bindle_id, err |-> <<>>]

\* ------------------------------------------------------------- lookups
\* get_app_id: the ids `find` can return for this name.
GetAppId(name) == {a.id : a \in {x \in apps : x.name = name}}

\* get_channel_id: the ids `find` can return for this channel name.
GetChannelId(name) == {c.id : c \in {x \in channels : x.name = name}}

\* get_revision_id: the ids `find` can return for this version.
GetRevisionId(bindle_version) ==
    {r.id : r \in {x \in revisions : x.version = bindle_version}}

\* The "spin-deploy" channels of an app.
ChannelsOf(app_id) ==
    {c \in channels : c.appId = app_id /\ c.name = SPIN_DEPLOY_CHANNEL_NAME}

\* ------------------------------------------------------------- helpers
\* The id Hippo gives a new record: one that no live record of its kind has.
FreshId(S) ==
    LET used == {x.id : x \in S} IN
    CHOOSE i \in 1..(Cardinality(S) + 1) :
        i \notin used /\ \A j \in 1..(i - 1) : j \in used

NoCalls == [c \in CallNames |-> 0]

\* No stage is being looked at on its own.
NoFn == [kind |-> "none"]

InitLoc == [bindle_id |-> None, app_id |-> NoId, existing_channel_id |-> NoId,
            active_revision_id |-> NoId, range_rule |-> None,
            revision_selection_strategy |-> UseRangeRule,
            channel_id |-> NoId, path |-> None, created_revision |-> NoId,
            app_existed |-> FALSE, lookup_failed |-> FALSE, printed |-> FALSE,
            failed_at |-> None, healthz |-> None, channel_missing |-> FALSE]

NoPushResult == [ok |-> FALSE, id |-> None, err |-> <<>>,
                 publish |-> None, existed |-> FALSE]

\* bindle_id.name() and bindle_id.version_string()
BindleName == loc.bindle_id[1]
BindleVersion == loc.bindle_id[2]

Issue(c) == calls' = [calls EXCEPT ![c] = @ + 1]

Cancel(t) == IF t = "none" THEN "none" ELSE "cancelled"

\* An error return that leaves run()'s timer running.
Fail_KeepsTimer(stage) ==
    /\ pc' = "failed"
    /\ loc' = [loc EXCEPT !.failed_at = stage]
    /\ UNCHANGED <<hippoTimer, calls, inv, runs>>

\* run() returns Err from the named stage: its locals are dropped.
Fail(stage) ==
    /\ pc' = "failed"
    /\ loc' = [loc EXCEPT !.failed_at = stage]
    /\ hippoTimer' = Cancel(hippoTimer)
    /\ UNCHANGED <<calls, inv, runs>>

Init ==
    /\ apps = {}
    /\ channels = {}
    /\ revisions = {}
    /\ store = {}
    /\ runs = 0
    /\ pc = "idle"
    /\ inv = [name |-> "a", version |-> "1.0.0", redeploy |-> FALSE]
    /\ loc = InitLoc
    /\ calls = NoCalls
    /\ pushResult = NoPushResult
    /\ pushTimer = "none"
    /\ hippoTimer = "none"
    /\ hist = [deployed |-> {}]
    /\ fn = NoFn

\* ------------------------------------------------------------- actions
\* A new invocation: run() up to the health check (lines 126-139).
StartUpTo(max) ==
    /\ pc \in {"idle", "done", "failed"}
    /\ runs < max
    /\ runs' = runs + 1
    /\ \E n \in Names, v \in Versions, r \in BOOLEAN :
          inv' = [name |-> n, version |-> v, redeploy |-> r]
    /\ loc' = InitLoc
    /\ calls' = [NoCalls EXCEPT !["healthz"] = 1]
    /\ pushResult' = NoPushResult
    /\ pushTimer' = "none"
    /\ hippoTimer' = "none"
    /\ pc' = "healthz"
    /\ UNCHANGED <<hippo, store, hist>>
    /\ UNCHANGED fn

Start == StartUpTo(MaxRuns)

StartTimed == StartUpTo(MaxTimedRuns)

\* A run() that drops the health check's result instead of propagating it.
HealthzReturns_IgnoresFailure ==
    /\ pc = "healthz"
    /\ \E h \in {"ok", "err"} : loc' = [loc EXCEPT !.healthz = h]
    /\ pushTimer' = "armed"
    /\ Issue("push")
    /\ pc' = "push"
    /\ UNCHANGED <<hippo, store, pushResult, hist, hippoTimer, inv, runs>>
    /\ UNCHANGED fn

\* check_hippo_healthz returns; on success create_and_push_bindle expands and
\* stages the bindle, arms its timer and pushes (lines 139-141, 311-338).
HealthzReturns ==
    /\ pc = "healthz"
    /\ \/ /\ pc' = "failed"
          /\ loc' = [loc EXCEPT !.failed_at = "healthz", !.healthz = "err"]
          /\ UNCHANGED <<pushTimer, hippoTimer, calls, inv, runs>>
       \/ \* expand_manifest or write fails
          /\ pc' = "failed"
          /\ loc' = [loc EXCEPT !.failed_at = "expand", !.healthz = "ok"]
          /\ UNCHANGED <<pushTimer, hippoTimer, calls, inv, runs>>
       \/ /\ loc' = [loc EXCEPT !.healthz = "ok"]
          /\ pushTimer' = "armed"
          /\ Issue("push")
          /\ pc' = "push"
          /\ UNCHANGED <<hippoTimer, inv, runs>>
    /\ UNCHANGED <<hippo, store, pushResult, hist>>
    /\ UNCHANGED fn

\* push_all returns and create_and_push_bindle returns; on success run() arms
\* its timer and logs in (lines 338-365, 141-154).
PushReturns ==
    /\ pc = "push"
    /\ LET id == <<inv.name, inv.version>> IN
       \E o \in PushOutcomes(id) :
          LET res == PublishResult(o, inv.redeploy, id) IN
          /\ store' = IF o.ok THEN store \cup {id} ELSE store
          /\ pushResult' = [ok |-> res.ok, id |-> res.id, err |-> res.err,
                             publish |-> o, existed |-> (id \in store)]
          /\ pushTimer' = Cancel(pushTimer)
          /\ IF res.ok
             THEN /\ loc' = [loc EXCEPT !.bindle_id = res.id]
                  /\ hippoTimer' = "armed"
                  /\ Issue("login")
                  /\ pc' = "login"
                  /\ UNCHANGED <<inv, runs>>
             ELSE Fail("push")
    /\ UNCHANGED <<hippo, hist>>
    /\ UNCHANGED fn

\* Client::login returns (lines 145-164); then get_app_id lists the apps.
LoginReturns ==
    /\ pc = "login"
    /\ \/ Fail("login")
       \/ /\ Issue("list_apps")
          /\ pc' = "list_apps"
          /\ UNCHANGED <<hippoTimer, inv, runs, loc>>
    /\ UNCHANGED <<hippo, store, pushResult, pushTimer, hist>>
    /\ UNCHANGED fn

\* The Ok(app_id) arm up to add_revision (lines 174-180).
UpdatePath(app_id) ==
    /\ loc' = [loc EXCEPT !.app_id = app_id, !.path = "update",
                          !.app_existed = TRUE]
    /\ Issue("add_revision")
    /\ pc' = "add_revision"
    /\ UNCHANGED hist

\* An Err(_) arm that forgets the range rule.
CreatePath_NoRangeRule(lookup_failed) ==
    /\ loc' = [loc EXCEPT !.path = "create",
                          !.app_existed = (GetAppId(BindleName) # {}),
                          !.lookup_failed = lookup_failed]
    /\ Issue("add_app")
    /\ pc' = "add_app"
    /\ UNCHANGED hist

\* The Err(_) arm up to add_app (lines 196-200).
CreatePath(lookup_failed) ==
    /\ loc' = [loc EXCEPT !.range_rule = BindleVersion, !.path = "create",
                          !.app_existed = (GetAppId(BindleName) # {}),
                          !.lookup_failed = lookup_failed]
    /\ Issue("add_app")
    /\ pc' = "add_app"
    /\ UNCHANGED hist

\* list_apps returns and get_app_id returns; run() matches on it (lines 173-202, 282-289).
ListAppsReturns ==
    /\ pc = "list_apps"
    /\ \/ \* list_apps fails: get_app_id is Err
          CreatePath(TRUE)
       \/ \* no app has the name: get_app_id is Err
          /\ GetAppId(BindleName) = {}
          /\ CreatePath(FALSE)
       \/ \E id \in GetAppId(BindleName) : UpdatePath(id)
    /\ UNCHANGED <<hippo, store, pushResult, pushTimer, hippoTimer, inv, runs>>
    /\ UNCHANGED fn

\* add_revision returns; then get_channel_id lists the channels (lines 175-186).
AddRevisionReturns ==
    /\ pc = "add_revision"
    /\ \/ /\ Fail("add_revision")
          /\ UNCHANGED hippo
       \/ /\ revisions' = revisions \cup
                {[id |-> FreshId(revisions), appName |-> BindleName,
                  version |-> BindleVersion]}
          /\ loc' = [loc EXCEPT !.created_revision = FreshId(revisions)]
          /\ Issue("list_channels")
          /\ pc' = "list_channels"
          /\ UNCHANGED <<apps, channels, hippoTimer, inv, runs>>
    /\ UNCHANGED <<store, pushResult, pushTimer, hist>>
    /\ UNCHANGED fn

\* list_channels returns and get_channel_id returns; then remove_channel
\* (lines 184-187, 302-309).
ListChannelsReturns ==
    /\ pc = "list_channels"
    /\ \/ Fail("list_channels")
       \/ /\ GetChannelId(SPIN_DEPLOY_CHANNEL_NAME) = {}
          /\ pc' = "failed"
          /\ loc' = [loc EXCEPT !.failed_at = "get_channel_id",
                                !.channel_missing = TRUE]
          /\ hippoTimer' = Cancel(hippoTimer)
          /\ UNCHANGED <<calls, inv, runs>>
       \/ \E id \in GetChannelId(SPIN_DEPLOY_CHANNEL_NAME) :
             /\ loc' = [loc EXCEPT !.existing_channel_id = id,
                           !.channel_missing = (ChannelsOf(loc.app_id) = {})]
             /\ Issue("remove_channel")
             /\ pc' = "remove_channel"
             /\ UNCHANGED <<hippoTimer, inv, runs>>
    /\ UNCHANGED <<hippo, store, pushResult, pushTimer, hist>>
    /\ UNCHANGED fn

\* remove_channel returns; then get_revision_id lists the revisions (lines 187-190).
RemoveChannelReturns ==
    /\ pc = "remove_channel"
    /\ \/ /\ Fail("remove_channel")
          /\ UNCHANGED hippo
       \/ /\ channels' = {c \in channels : c.id # loc.existing_channel_id}
          /\ Issue("list_revisions")
          /\ pc' = "list_revisions"
          /\ UNCHANGED <<apps, revisions, hippoTimer, inv, runs, loc>>
    /\ UNCHANGED <<store, pushResult, pushTimer, hist>>
    /\ UNCHANGED fn

\* An update path that records the revision id but leaves the strategy as it was.
ListRevisionsReturns_KeepsStrategy ==
    /\ pc = "list_revisions"
    /\ \E id \in GetRevisionId(BindleVersion) :
          /\ loc' = [loc EXCEPT !.active_revision_id = id]
          /\ Issue("add_channel")
          /\ pc' = "add_channel"
    /\ UNCHANGED <<hippo, store, pushResult, pushTimer, hist, hippoTimer, inv, runs>>
    /\ UNCHANGED fn

\* list_revisions returns and get_revision_id returns; then add_channel
\* (lines 188-195, 204-213, 291-300).
ListRevisionsReturns ==
    /\ pc = "list_revisions"
    /\ \/ Fail("list_revisions")
       \/ /\ GetRevisionId(BindleVersion) = {}
          /\ Fail("get_revision_id")
       \/ \E id \in GetRevisionId(BindleVersion) :
             /\ loc' = [loc EXCEPT !.active_revision_id = id,
                           !.revision_selection_strategy = UseSpecifiedRevision]
             /\ Issue("add_channel")
             /\ pc' = "add_channel"
             /\ UNCHANGED <<hippoTimer, inv, runs>>
    /\ UNCHANGED <<hippo, store, pushResult, pushTimer, hist>>
    /\ UNCHANGED fn

\* add_app returns; then add_channel (lines 198-213).
AddAppReturns ==
    /\ pc = "add_app"
    /\ \/ /\ Fail("add_app")
          /\ UNCHANGED hippo
       \/ /\ apps' = apps \cup {[id |-> FreshId(apps), name |-> BindleName]}
          /\ loc' = [loc EXCEPT !.app_id = FreshId(apps)]
          /\ Issue("add_channel")
          /\ pc' = "add_channel"
          /\ UNCHANGED <<channels, revisions, hippoTimer, inv, runs>>
    /\ UNCHANGED <<store, pushResult, pushTimer, hist>>
    /\ UNCHANGED fn

\* A run() that prints "Deployed ..." before add_channel has answered.
AddChannelReturns_PrintsFirst ==
    /\ pc = "add_channel"
    /\ pc' = "failed"
    /\ loc' = [loc EXCEPT !.failed_at = "add_channel", !.printed = TRUE]
    /\ hippoTimer' = Cancel(hippoTimer)
    /\ UNCHANGED <<hippo, store, pushResult, pushTimer, hist, calls, inv, runs>>
    /\ UNCHANGED fn

\* add_channel returns; run() prints "Deployed ..." and re-reads the channel
\* (lines 204-224).
AddChannelReturns ==
    /\ pc = "add_channel"
    /\ \/ /\ Fail("add_channel")
          /\ UNCHANGED hippo
       \/ /\ channels' = channels \cup
                {[id |-> FreshId(channels), appId |-> loc.app_id,
                  name |-> SPIN_DEPLOY_CHANNEL_NAME,
                  strategy |-> loc.revision_selection_strategy,
                  rangeRule |-> loc.range_rule,
                  activeRevisionId |-> loc.active_revision_id]}
          /\ loc' = [loc EXCEPT !.channel_id = FreshId(channels), !.printed = TRUE]
          /\ Issue("get_channel_by_id")
          /\ pc' = "get_channel_by_id"
          /\ UNCHANGED <<apps, revisions, hippoTimer, inv, runs>>
    /\ UNCHANGED <<store, pushResult, pushTimer, hist>>
    /\ UNCHANGED fn

\* get_channel_by_id returns; run() prints the routes and returns Ok (lines 222-237).
GetChannelByIdReturns ==
    /\ pc = "get_channel_by_id"
    /\ \/ /\ Fail("get_channel_by_id")
          /\ UNCHANGED hist
       \/ /\ pc' = "done"
          /\ hippoTimer' = Cancel(hippoTimer)
          /\ hist' = [hist EXCEPT !.deployed = @ \cup {loc.app_id}]
          /\ UNCHANGED <<calls, inv, runs, loc>>
    /\ UNCHANGED <<hippo, store, pushResult, pushTimer>>
    /\ UNCHANGED fn

\* The delay of a slow-response warning elapses: the warning is printed.
PushTimerFires ==
    /\ pushTimer = "armed"
    /\ pushTimer' = "fired"
    /\ UNCHANGED <<hippo, store, runs, pc, inv, loc, calls, pushResult,
                   hippoTimer, hist>>
    /\ UNCHANGED fn

HippoTimerFires ==
    /\ hippoTimer = "armed"
    /\ hippoTimer' = "fired"
    /\ UNCHANGED <<hippo, store, runs, pc, inv, loc, calls, pushResult,
                   pushTimer, hist>>
    /\ UNCHANGED fn

\* The steps of an invocation under way.
Step ==
    \/ HealthzReturns
    \/ PushReturns
    \/ LoginReturns
    \/ ListAppsReturns
    \/ AddRevisionReturns
    \/ ListChannelsReturns
    \/ RemoveChannelReturns
    \/ ListRevisionsReturns
    \/ AddAppReturns
    \/ AddChannelReturns
    \/ GetChannelByIdReturns

Next == Start \/ Step

Spec == Init /\ [][Next]_vars

\* The same invocations with the timers' delays free to elapse at any moment.
NextTimed == StartTimed \/ Step \/ PushTimerFires \/ HippoTimerFires

SpecTimed == Init /\ [][NextTimed]_vars

\* ------------------------------------------------- stages of run(), alone
\* The stages below are functions of the invocation's inputs (flags, the
\* manifest, the files it names, an error body): each is checked on its own,
\* over bounded sets of inputs, in SpecStages.

\* components of a manifest
MaxComponents == 2

\* Option<T>: of a string (a sequence), and of a list of patterns (the set of
\* files they match)
NoneOf == [some |-> FALSE, val |-> <<>>]
NoFiles == [some |-> FALSE, val |-> {}]
Some(v) == [some |-> TRUE, val |-> v]

Truncate(s, n) == SubSeq(s, 1, IF Len(s) < n THEN Len(s) ELSE n)

\* Paths are numbers so that a sorted listing is by <.  The manifest file:
ManifestPath == 0
\* a component's wasm module when it is a local file (1 or 2), and the files
\* its asset patterns can match
SourcePaths == {1, 2}
AssetPaths == {2, 3, 4}
\* the bytes of each file
Content(p) == <<p + 1, 2 * p + 1>>

Digits == {"0", "1", "2", "3", "4", "5", "6", "7", "8", "9"}
HexDigits == <<"0", "1", "2", "3", "4", "5", "6", "7", "8", "9",
               "a", "b", "c", "d", "e", "f">>
Lower == {"a", "b", "c", "d", "e", "f", "g", "h", "i", "j", "k", "l", "m",
          "n", "o", "p", "q", "r", "s", "t", "u", "v", "w", "x", "y", "z"}
Upper == {"A", "B", "C", "D", "E", "F", "G", "H", "I", "J", "K", "L", "M",
          "N", "O", "P", "Q", "R", "S", "T", "U", "V", "W", "X", "Y", "Z"}

\* Sha256 with {:x}: 64 hex digits, a function of the whole byte stream in
\* order.  The mixing is a small stand-in for the compression function.
DigestHexLen == 64

RECURSIVE Mix(_)
Mix(bytes) ==
    IF bytes = <<>> THEN 7
    ELSE ((Mix(SubSeq(bytes, 1, Len(bytes) - 1)) * 31) + bytes[Len(bytes)] + 1) % 65521

Sha256Hex(bytes) ==
    LET h == Mix(bytes)
    IN  [i \in 1..DigestHexLen |-> HexDigits[(((h \div i) + 5 * i) % 16) + 1]]

\* format!("q{:x}", ..) and then truncate(8) on the whole string
FinalDigest(hex) == Truncate(<<"q">> \o hex, 8)

\* semver::BuildMetadata::new: ASCII alphanumerics and hyphens
IsBuildMetadata(s) ==
    \A i \in 1..Len(s) : s[i] \in Digits \cup Lower \cup Upper \cup {"-"}

\* assets::collect: the files the patterns match, less the excluded ones, in a
\* stable order whatever order the filesystem lists them in (listing)
Collect(files, exclude_files, listing) ==
    SortSeq(SelectSeq(listing, LAMBDA p : p \in files \ exclude_files),
            LAMBDA a, b : a < b)

\* what one component feeds into the digest: its module when that is a local
\* file, then its asset files
ComponentFiles(x, listing) ==
    (IF x.source = "Bindle" THEN <<>> ELSE <<x.path>>)
    \o (IF x.files.some THEN Collect(x.files.val, x.exclude_files, listing) ELSE <<>>)

RECURSIVE FedFiles(_, _)
FedFiles(components, listing) ==
    IF components = <<>> THEN <<>>
    ELSE ComponentFiles(Head(components), listing) \o FedFiles(Tail(components), listing)

RECURSIVE BytesOf(_)
BytesOf(files) ==
    IF files = <<>> THEN <<>> ELSE Content(Head(files)) \o BytesOf(Tail(files))

\* compute_buildinfo: the files read, in order, and the identifier; a file that
\* cannot be opened fails the computation
ComputeBuildinfo_ManifestFirst(components, missing, listing) ==
    LET fed == <<ManifestPath>> \o FedFiles(components, listing)
        id  == FinalDigest(Sha256Hex(BytesOf(fed)))
    IN  IF (\E i \in 1..Len(fed) : fed[i] \in missing) \/ ~IsBuildMetadata(id)
        THEN [ok |-> FALSE, fed |-> fed, id |-> <<>>]
        ELSE [ok |-> TRUE, fed |-> fed, id |-> id]

ComputeBuildinfo(components, missing, listing) ==
    LET fed == FedFiles(components, listing) \o <<ManifestPath>>
        id  == FinalDigest(Sha256Hex(BytesOf(fed)))
    IN  IF (\E i \in 1..Len(fed) : fed[i] \in missing) \/ ~IsBuildMetadata(id)
        THEN [ok |-> FALSE, fed |-> fed, id |-> <<>>]
        ELSE [ok |-> TRUE, fed |-> fed, id |-> id]

\* run(): which build identifier, if any, goes to create_and_push_bindle
SelectBuildinfo_ComputesAnyway(no_buildinfo, buildinfo, components, missing, listing) ==
    LET c == ComputeBuildinfo(components, missing, listing)
    IN  [ok |-> c.ok, computed |-> TRUE, fed |-> c.fed,
         buildinfo |-> IF no_buildinfo \/ ~c.ok THEN NoneOf
                       ELSE IF buildinfo.some THEN buildinfo ELSE Some(c.id)]

SelectBuildinfo(no_buildinfo, buildinfo, components, missing, listing) ==
    IF ~no_buildinfo
    THEN IF buildinfo.some
         THEN [ok |-> TRUE, computed |-> FALSE, fed |-> <<>>, buildinfo |-> buildinfo]
         ELSE LET c == ComputeBuildinfo(components, missing, listing)
              IN  [ok |-> c.ok, computed |-> TRUE, fed |-> c.fed,
                   buildinfo |-> IF c.ok THEN Some(c.id) ELSE NoneOf]
    ELSE [ok |-> TRUE, computed |-> FALSE, fed |-> <<>>, buildinfo |-> NoneOf]

\* sequences over S of length at most n
SeqsUpTo(S, n) == UNION {[1..k -> S] : k \in 0..n}

Orders(S) ==
    {s \in [1..Cardinality(S) -> S] : \A i, j \in 1..Cardinality(S) : i # j => s[i] # s[j]}

\* the part of a component that compute_buildinfo reads; a Bindle source names
\* a parcel, not a path
BuildComponents ==
    [source : {"FileReference"}, path : SourcePaths,
     files : {NoFiles, Some(AssetPaths)}, exclude_files : {{}}]
    \cup [source : {"FileReference"}, path : {1},
          files : {Some(AssetPaths)}, exclude_files : {{3}}]
    \cup [source : {"Bindle"}, path : {1},
          files : {NoFiles, Some(AssetPaths)}, exclude_files : {{}}]

BuildinfoLiterals == {<<"r", "c", "1">>, <<"0", "7">>}

\* Two invocations on one manifest and one set of files; the filesystem lists
\* the asset files in listing1 for the first and in listing2 for the second.
\* --no-buildinfo conflicts with --buildinfo, so both are never given.
BuildinfoInputs ==
    {i \in [no_buildinfo : BOOLEAN,
            buildinfo : {NoneOf} \cup {Some(l) : l \in BuildinfoLiterals},
            components : SeqsUpTo(BuildComponents, MaxComponents),
            missing : {{}, {1}},
            listing1 : Orders(AssetPaths), listing2 : Orders(AssetPaths)] :
        ~(i.no_buildinfo /\ i.buildinfo.some)}

\* ---- the tail of run(): what is printed after the "Deployed" line

Header == <<"Available Routes:">>
Fallback(domain) == <<"Application is running at", domain>>

\* Url::parse(hippo_url), and the scheme the route lines use
Scheme(hippo_url) == IF hippo_url.parses THEN hippo_url.scheme ELSE "http"

\* RoutePattern::from(base, route) as displayed: the route under the base
RoutePattern(base, route) == base \o route

RouteLine(component, address, base, hippo_url) ==
    <<"  ", component.id, ": ", Scheme(hippo_url), "://", address>>
    \o RoutePattern(base, component.trigger.route)

DescriptionLine(description) == <<"    ">> \o description

RECURSIVE ComponentLines(_, _, _, _)
ComponentLines(components, address, base, hippo_url) ==
    IF components = <<>> THEN <<>>
    ELSE LET c == Head(components)
         IN  (IF c.trigger.type = "http"
              THEN <<RouteLine(c, address, base, hippo_url)>>
                   \o (IF c.description.some
                       THEN <<DescriptionLine(c.description.val)>> ELSE <<>>)
              ELSE <<>>)
             \o ComponentLines(Tail(components), address, base, hippo_url)

print_available_routes(address, base, hippo_url, components) ==
    IF components = <<>> THEN <<>>
    ELSE <<Header>> \o ComponentLines(components, address, base, hippo_url)

\* the lines run() prints once it has the channel's domain
PrintedAfterDeploy(trigger, domain, hippo_url, components) ==
    IF trigger.type = "http"
    THEN print_available_routes(domain, trigger.base, hippo_url, components)
    ELSE <<Fallback(domain)>>

\* the part of a component that print_available_routes reads; a redis trigger
\* has a channel and no route
RouteComponents ==
    [id : {"c1", "c2"},
     trigger : {[type |-> "http", route |-> <<"/hello">>],
                [type |-> "http", route |-> <<"/...">>],
                [type |-> "redis", route |-> <<>>]},
     description : {NoneOf, Some(<<"says", "hello">>)}]

RoutesInputs ==
    [trigger : {[type |-> "http", base |-> <<"/">>], [type |-> "http", base |-> <<"/api">>],
                [type |-> "redis", base |-> <<>>]},
     domain : {"a.hippo.test"},
     hippo_url : {[parses |-> TRUE, scheme |-> "https"], [parses |-> TRUE, scheme |-> "http"],
                  [parses |-> FALSE, scheme |-> ""]},
     components : SeqsUpTo(RouteComponents, MaxComponents)]

\* ---- a failed login

\* tokens of an error detail
MaxDetailLen == 3
DetailTokens == {"Invalid", "login", ": "}
Separator == ": "

LoginErrorPrefix == <<"Problem logging into Hippo: ">>

\* the body Hippo sends for a LoginHippoError
Body(title, detail) == <<"{", "title", title, "detail">> \o detail \o <<"}">>

\* serde_json::from_str::<LoginHippoError>
FromStr(body) ==
    IF /\ Len(body) >= 5
       /\ body[1] = "{" /\ body[2] = "title" /\ body[4] = "detail" /\ body[Len(body)] = "}"
    THEN [ok |-> TRUE, title |-> body[3], detail |-> SubSeq(body, 5, Len(body) - 1),
          err |-> <<>>]
    ELSE [ok |-> FALSE, title |-> "", detail |-> <<>>,
          err |-> IF body # <<>> /\ body[1] = "{"
                  THEN <<"missing", "field">> ELSE <<"expected", "value">>]

EndsWith(s, t) == s # <<>> /\ s[Len(s)] = t
Replace(s, from, to) == [i \in 1..Len(s) |-> IF s[i] = from THEN to ELSE s[i]]

format_login_error(err) ==
    LET error == FromStr(err)
    IN  IF ~error.ok THEN [ok |-> FALSE, val |-> error.err]
        ELSE IF EndsWith(error.detail, Separator)
             THEN [ok |-> TRUE, val |-> LoginErrorPrefix \o Replace(error.detail, Separator, ".")]
             ELSE [ok |-> TRUE, val |-> LoginErrorPrefix \o error.detail]

\* Err(err) => bail!(format_login_error(&err)?): the error run() returns
LoginFailure(err) == format_login_error(err).val

LoginInputs ==
    {Body(t, d) : t \in {"Unauthorized", "Bad Request"},
                  d \in SeqsUpTo(DetailTokens, MaxDetailLen)}
    \cup {<<"connection", "refused">>, <<"{", "}">>, <<>>}

\* ---- the stages as a state machine

StageInputs ==
    {[kind |-> "buildinfo", in |-> i, done |-> FALSE] : i \in BuildinfoInputs}
    \cup {[kind |-> "routes", in |-> i, done |-> FALSE] : i \in RoutesInputs}
    \cup {[kind |-> "login", in |-> i, done |-> FALSE] : i \in LoginInputs}

InitStages ==
    /\ apps = {}
    /\ channels = {}
    /\ revisions = {}
    /\ store = {}
    /\ runs = 0
    /\ pc = "idle"
    /\ inv = [name |-> "a", version |-> "1.0.0", redeploy |-> FALSE]
    /\ loc = InitLoc
    /\ calls = NoCalls
    /\ pushResult = NoPushResult
    /\ pushTimer = "none"
    /\ hippoTimer = "none"
    /\ hist = [deployed |-> {}]
    /\ fn \in StageInputs

NotRunning == <<apps, channels, revisions, store, runs, pc, inv, loc, calls,
                pushResult, pushTimer, hippoTimer, hist>>

BuildinfoChosen ==
    /\ fn.kind = "buildinfo" /\ ~fn.done
    /\ fn' = [kind |-> "buildinfo", in |-> fn.in, done |-> TRUE,
              out |-> <<SelectBuildinfo(fn.in.no_buildinfo, fn.in.buildinfo,
                                        fn.in.components, fn.in.missing, fn.in.listing1),
                        SelectBuildinfo(fn.in.no_buildinfo, fn.in.buildinfo,
                                        fn.in.components, fn.in.missing, fn.in.listing2)>>]
    /\ UNCHANGED NotRunning

RoutesPrinted ==
    /\ fn.kind = "routes" /\ ~fn.done
    /\ fn' = [kind |-> "routes", in |-> fn.in, done |-> TRUE,
              out |-> PrintedAfterDeploy(fn.in.trigger, fn.in.domain, fn.in.hippo_url,
                                         fn.in.components)]
    /\ UNCHANGED NotRunning

LoginFailed ==
    /\ fn.kind = "login" /\ ~fn.done
    /\ fn' = [kind |-> "login", in |-> fn.in, done |-> TRUE, out |-> LoginFailure(fn.in)]
    /\ UNCHANGED NotRunning

NextStages == BuildinfoChosen \/ RoutesPrinted \/ LoginFailed

SpecStages == InitStages /\ [][NextStages]_vars

\* ------------------------------------------------------------------ claims
\* The channel and the app the current invocation created.
CreatedChannel == {c \in channels : c.id = loc.channel_id}
CreatedApp == {a \in apps : a.id = loc.app_id}

MutatingCalls == {"add_app", "add_revision", "remove_channel", "add_channel"}

\* C1: a redeploy of an existing app issues exactly one add_revision, one
\* remove_channel and one add_channel, and the channel it creates uses
\* UseSpecifiedRevision, has no range rule, and is pinned to the id of the
\* revision this invocation created.
C1_RedeployPinsItsOwnRevision ==
    (pc = "done" /\ loc.path = "update") =>
        /\ calls["add_revision"] = 1
        /\ calls["remove_channel"] = 1
        /\ calls["add_channel"] = 1
        /\ \A c \in CreatedChannel :
              /\ c.strategy = UseSpecifiedRevision
              /\ c.rangeRule = None
              /\ c.activeRevisionId = loc.created_revision

\* C2: a first deploy of a name Hippo does not hold issues exactly one add_app,
\* under the bindle's name, and exactly one add_channel; that channel uses
\* UseRangeRule with the bindle's version as range rule and no active revision;
\* and it issues no list_revisions, add_revision or remove_channel.
C2_FirstDeployCreatesAppAndRangeRuleChannel ==
    (loc.path = "create" /\ ~loc.app_existed) =>
        /\ calls["list_revisions"] = 0
        /\ calls["add_revision"] = 0
        /\ calls["remove_channel"] = 0
        /\ calls["list_channels"] = 0
        /\ calls["add_app"] = 1
        /\ calls["add_channel"] <= 1
        /\ pc = "done" =>
              /\ calls["add_channel"] = 1
              /\ CreatedApp = {[id |-> loc.app_id, name |-> inv.name]}
              /\ CreatedChannel =
                    {[id |-> loc.channel_id, appId |-> loc.app_id,
                      name |-> SPIN_DEPLOY_CHANNEL_NAME,
                      strategy |-> UseRangeRule,
                      rangeRule |-> inv.version,
                      activeRevisionId |-> NoId]}

C2_Witness ==
    /\ pc = "done"
    /\ loc.path = "create"
    /\ ~loc.app_existed
    /\ inv.version = "2.0.0"
    /\ \E a \in apps : a.name # inv.name
    /\ \E c \in CreatedChannel : c.rangeRule = "2.0.0"

\* C3: every app has at most one "spin-deploy" channel in every reachable state.
C3_AtMostOneChannelPerApp ==
    \A a \in apps : Cardinality(ChannelsOf(a.id)) <= 1

\* C4: once the first deploy of an app has completed, the app has exactly one
\* "spin-deploy" channel in every later state, the states inside a later
\* redeploy included.
C4_AlwaysExactlyOneLiveChannel ==
    \A a \in apps :
        a.id \in hist.deployed => Cardinality(ChannelsOf(a.id)) = 1

\* C5: add_app is never issued for a name by an invocation that runs while an
\* app of that name exists.
C5_NoAddAppWhileAppExists ==
    calls["add_app"] > 0 => ~loc.app_existed

\* C6: when the app lookup fails because list_apps itself fails, the
\* invocation fails and issues neither add_app nor add_channel.
C6_LookupFailureIsFatal ==
    loc.lookup_failed =>
        /\ calls["add_app"] = 0
        /\ calls["add_channel"] = 0
        /\ pc = "failed"

\* C7: publishing a (name, version) the store already holds fails without the
\* redeploy flag, with a message naming --deploy-existing-bindle, and with the
\* flag succeeds and returns the id a first successful push returns; any other
\* push failure fails whatever the flag; a successful push returns the id.
C7_PublishConflictPolicy ==
    (calls["push"] = 1 /\ pc # "push") =>
        LET id == <<inv.name, inv.version>> IN
        /\ pushResult.publish.ok => (pushResult.ok /\ pushResult.id = id)
        /\ (pushResult.existed /\ pushResult.publish.err = InvoiceExistsErr) =>
              IF inv.redeploy
              THEN pushResult.ok /\ pushResult.id = id /\ pushResult.id \in store
              ELSE /\ ~pushResult.ok
                   /\ Contains(pushResult.err, <<"--deploy-existing-bindle">>)
        /\ (~pushResult.publish.ok /\ pushResult.publish.err # InvoiceExistsErr) =>
              ~pushResult.ok

C7_Witness ==
    /\ calls["push"] = 1
    /\ pc = "login"
    /\ pushResult.existed
    /\ pushResult.publish.err = InvoiceExistsErr
    /\ inv.redeploy
    /\ pushResult.ok
    /\ pushResult.id = <<inv.name, inv.version>>

\* C8: on the update path, when the app being deployed has no "spin-deploy"
\* channel, the invocation fails and issues neither remove_channel nor
\* add_channel, whatever channels other apps have.
C8_MissingChannelIsFatal ==
    (loc.path = "update" /\ loc.channel_missing) =>
        /\ calls["remove_channel"] = 0
        /\ calls["add_channel"] = 0
        /\ pc = "failed"

\* C9: the health check is issued before the push and the login; when it fails
\* neither is issued; when the push stage fails, no login and no call that
\* creates or deletes an app, revision or channel is issued.
C9_StagesAbortInOrder ==
    /\ pc = "healthz" => (calls["push"] = 0 /\ calls["login"] = 0)
    /\ calls["push"] > 0 => calls["healthz"] = 1
    /\ pc = "push" => calls["login"] = 0
    /\ loc.healthz = "err" =>
          \A c \in CallNames \ {"healthz"} : calls[c] = 0
    /\ ((calls["push"] > 0 /\ pc # "push" /\ ~pushResult.ok)
          \/ loc.failed_at \in {"expand", "push"}) =>
          /\ calls["login"] = 0
          /\ \A c \in MutatingCalls : calls[c] = 0
          /\ pc = "failed"

C9_Witness ==
    /\ pc = "failed"
    /\ loc.failed_at = "push"
    /\ pushResult.existed
    /\ ~inv.redeploy
    /\ apps # {}
    /\ calls["login"] = 0

\* C10 as stated: each timer is alive only while the one call it was started
\* for is in flight: the push for the first, the login for the second.
C10_TimerEndsWithItsCall ==
    /\ pushTimer = "armed" => pc = "push"
    /\ hippoTimer = "armed" => pc = "login"

HippoPhase == {"login", "list_apps", "add_revision", "list_channels",
               "remove_channel", "list_revisions", "add_app", "add_channel",
               "get_channel_by_id"}

\* C10 as amended: the push timer is alive only while the push is in flight and
\* is cancelled when create_and_push_bindle returns; the second timer is started
\* before the login and stays in scope across every later Hippo call, until
\* run() returns; no timer is alive once run() has returned, on success or on
\* failure; and a timer that fires changes nothing but itself.
C10_TimersEndWithTheirScope ==
    /\ [](/\ pushTimer \in {"armed", "fired"} <=> pc = "push"
          /\ hippoTimer \in {"armed", "fired"} <=> pc \in HippoPhase
          /\ pc \in {"done", "failed"} =>
                (pushTimer \in {"none", "cancelled"}
                 /\ hippoTimer \in {"none", "cancelled"}))
    /\ [][((pushTimer = "armed" /\ pushTimer' = "fired")
           \/ (hippoTimer = "armed" /\ hippoTimer' = "fired"))
          => UNCHANGED <<hippo, store, runs, pc, inv, loc, calls, pushResult,
                         hist>>]_vars

C10_Witness ==
    /\ pc = "list_channels"
    /\ hippoTimer = "armed"
    /\ pushTimer = "cancelled"

\* C16: the channel handed to remove_channel belongs to the app being
\* deployed, so a redeploy leaves the channels of every other app alone.
C16_RemovesOwnChannelOnly ==
    pc = "remove_channel" =>
        \A c \in channels :
            c.id = loc.existing_channel_id => c.appId \in GetAppId(inv.name)

\* The (app, version) pairs a completed deploy exists for, and the revisions
\* registered for a pair (one record per add_revision that succeeded).
RevisionsOf(n, v) == {r \in revisions : r.appName = n /\ r.version = v}

\* C17: a revision is registered exactly once per distinct version of an app:
\* a completed deploy of (app, version) has one add_revision behind it, and no
\* (app, version) is ever registered a second time.
C17_OneRevisionPerVersion ==
    /\ \A n \in Names, v \in Versions : Cardinality(RevisionsOf(n, v)) <= 1
    /\ pc = "done" => Cardinality(RevisionsOf(inv.name, inv.version)) = 1

\* C18: whenever no invocation is under way, every app Hippo holds has a
\* "spin-deploy" channel, aborted invocations included.
C18_EveryAppHasAChannel ==
    pc \in {"idle", "done", "failed"} =>
        \A a \in apps : ChannelsOf(a.id) # {}

\* C19: in every add_channel call exactly one of range rule and active revision
\* id is set, and it is the one the strategy names.
C19_ChannelArgumentsAgreeWithStrategy ==
    pc = "add_channel" =>
        /\ loc.revision_selection_strategy \in {UseRangeRule, UseSpecifiedRevision}
        /\ (loc.range_rule # None) # (loc.active_revision_id # NoId)
        /\ loc.revision_selection_strategy = UseRangeRule <=>
              (loc.range_rule # None /\ loc.active_revision_id = NoId)
        /\ loc.revision_selection_strategy = UseSpecifiedRevision <=>
              (loc.active_revision_id # NoId /\ loc.range_rule = None)

C19_Witness ==
    /\ pc = "add_channel"
    /\ loc.path = "update"
    /\ loc.revision_selection_strategy = UseSpecifiedRevision
    /\ loc.active_revision_id # NoId

\* C20 as stated: an invocation that returns an error has not printed the
\* "Deployed <name> version <version>" line.
C20_PrintedOnlyOnSuccess ==
    pc = "failed" => ~loc.printed

\* C20 as amended: the line is printed exactly when add_channel has succeeded:
\* every successful invocation has printed it, an invocation that fails at
\* any step up to and including add_channel has not, and one that fails at the
\* final get_channel_by_id has.
C20_PrintedOnceChannelCreated ==
    /\ loc.printed <=> loc.channel_id # NoId
    /\ loc.printed <=> calls["get_channel_by_id"] = 1
    /\ pc = "done" => loc.printed
    /\ pc = "failed" => (loc.printed <=> loc.failed_at = "get_channel_by_id")

C20_Witness ==
    /\ pc = "failed"
    /\ loc.failed_at = "get_channel_by_id"
    /\ loc.printed
    /\ CreatedChannel # {}

\* ---- the stages, in SpecStages

\* the two invocations whose build identifier has been chosen
BuildRuns == IF fn.kind = "buildinfo" /\ fn.done THEN {fn.out[1], fn.out[2]} ELSE {}

\* the digest of the files an invocation read
DigestOf(r) == Sha256Hex(BytesOf(r.fed))

\* C13: a computed build identifier is the marker followed by
\* exactly 8 characters of the hex digest.
C13_MarkerThenEightHexDigits ==
    \A r \in BuildRuns :
        r.computed /\ r.ok =>
            r.buildinfo.val = <<"q">> \o SubSeq(DigestOf(r), 1, 8)

\* the files a component contributes to the digest, and where they start
AssetsOf(x) == IF x.files.some THEN x.files.val \ x.exclude_files ELSE {}
SourceCount(x) == IF x.source = "FileReference" THEN 1 ELSE 0

RECURSIVE Offset(_, _)
Offset(components, k) ==
    IF k = 1 THEN 0
    ELSE Offset(components, k - 1) + SourceCount(components[k - 1])
         + Cardinality(AssetsOf(components[k - 1]))

\* C14: two invocations on the same manifest and the same file contents get
\* the same build identifier whatever order the filesystem lists the asset
\* files in; the digest reads, per component in manifest order, the local
\* source file and then the asset files, a remote source contributing nothing,
\* and the manifest file last; the identifier starts with a non-digit and is
\* valid semver build metadata.
C14_DeterministicOrderedValidIdentifier ==
    fn.kind = "buildinfo" /\ fn.done =>
        /\ fn.out[1].ok = fn.out[2].ok
        /\ fn.out[1].buildinfo = fn.out[2].buildinfo
        /\ \A r \in BuildRuns :
              r.computed =>
                  LET cs == fn.in.components
                      n  == Len(cs)
                  IN  /\ Len(r.fed) = Offset(cs, n + 1) + 1
                      /\ r.fed[Len(r.fed)] = ManifestPath
                      /\ \A k \in 1..n :
                            LET first == Offset(cs, k) + SourceCount(cs[k]) + 1
                                last  == Offset(cs, k + 1)
                            IN  /\ cs[k].source = "FileReference" =>
                                       r.fed[Offset(cs, k) + 1] = cs[k].path
                                /\ {r.fed[i] : i \in first..last} = AssetsOf(cs[k])
                      /\ r.ok <=> ~\E i \in 1..Len(r.fed) : r.fed[i] \in fn.in.missing
                      /\ r.ok => /\ r.buildinfo.some
                                 /\ r.buildinfo.val # <<>>
                                 /\ r.buildinfo.val[1] \notin Digits
                                 /\ IsBuildMetadata(r.buildinfo.val)

C14_Witness ==
    /\ fn.kind = "buildinfo" /\ fn.done
    /\ fn.in.listing1 # fn.in.listing2
    /\ fn.out[1].computed /\ fn.out[1].ok
    /\ Len(fn.in.components) = 2
    /\ fn.in.components[1].source = "Bindle"
    /\ fn.in.components[2].source = "FileReference"
    /\ Cardinality(AssetsOf(fn.in.components[2])) >= 2

\* C15: with --no-buildinfo no build identifier is attached and none is
\* computed; with a --buildinfo literal exactly that value is attached and
\* none is computed; the identifier is computed by hashing only when neither
\* is given, and then the computed one is attached.
C15_BuildinfoSelection ==
    \A r \in BuildRuns :
        /\ fn.in.no_buildinfo => r.ok /\ ~r.buildinfo.some /\ ~r.computed
        /\ fn.in.buildinfo.some => r.ok /\ r.buildinfo = fn.in.buildinfo /\ ~r.computed
        /\ r.computed <=> (~fn.in.no_buildinfo /\ ~fn.in.buildinfo.some)
        /\ r.computed /\ r.ok =>
               /\ r.buildinfo.some
               /\ r.buildinfo.val[1] = "q"
               /\ r.fed # <<>>
        /\ ~r.computed => r.fed = <<>>

C15_Witness ==
    /\ fn.kind = "buildinfo" /\ fn.done
    /\ ~fn.in.no_buildinfo /\ fn.in.buildinfo.some
    /\ fn.in.components # <<>>
    /\ fn.out[1].buildinfo = fn.in.buildinfo

\* the route lines among the printed lines, and the line each HTTP component
\* is due
RouteLines(out) == SelectSeq(out, LAMBDA l : Contains(l, <<"://">>))
HttpComponents(components) == SelectSeq(components, LAMBDA c : c.trigger.type = "http")

DueLine(c) ==
    <<"  ", c.id, ": ", Scheme(fn.in.hippo_url), "://", fn.in.domain>>
    \o fn.in.trigger.base \o c.trigger.route

DueLines ==
    LET h == HttpComponents(fn.in.components)
    IN  [i \in 1..Len(h) |-> DueLine(h[i])]

\* C11: with zero components no route line is printed; every
\* HTTP-triggered component gets one line 'id: scheme://domain<base+route>'
\* and the other components none; and whenever there is a component but no
\* HTTP-triggered one, the output is the single bare-domain line.
C11_RoutesOrFallbackByComponents ==
    fn.kind = "routes" /\ fn.done =>
        /\ fn.in.components = <<>> => RouteLines(fn.out) = <<>>
        /\ HttpComponents(fn.in.components) # <<>> => RouteLines(fn.out) = DueLines
        /\ (fn.in.components # <<>> /\ HttpComponents(fn.in.components) = <<>>) =>
               fn.out = <<Fallback(fn.in.domain)>>

\* C12: a login error whose body is a {title, detail} structure fails the
\* invocation with 'Problem logging into Hippo: <detail>', a detail that ends
\* in the ': ' separator ending in '.' instead; any other login error fails
\* the invocation with that error, unchanged.
C12_LoginErrorReformattedOrUnchanged ==
    fn.kind = "login" /\ fn.done =>
        LET error == FromStr(fn.in)
            d     == error.detail
        IN  IF error.ok
            THEN fn.out = LoginErrorPrefix
                          \o (IF EndsWith(d, Separator)
                              THEN SubSeq(d, 1, Len(d) - 1) \o <<".">> ELSE d)
            ELSE fn.out = fn.in

====
